---- MODULE Spec2Model ----
(***************************************************************************)
(* Model of replace_section.py: a run-once script that reads               *)
(* nodes/AIMediaGen.ts, locates the section between two comment markers,   *)
(* replaces it by a header and 14 generated field blocks, and writes the   *)
(* file back.                                                              *)
(*                                                                         *)
(* Text is modelled as a sequence of tokens (strings).  The three literal  *)
(* substrings the script searches for are built from the tokens "// ",     *)
(* "Nano Banana - Input Images" and "Nano Banana - Aspect Ratio", so that  *)
(* Python's `in` on strings becomes a contiguous-subsequence test.  Line   *)
(* terminators are the tokens "\n" and "\r\n".  The file on disk is one    *)
(* flat token sequence; readlines() and writelines() convert between it    *)
(* and the list of lines as Python's text mode does.                       *)
(***************************************************************************)
EXTENDS Integers, Sequences, FiniteSets, TLC

VARIABLES
    disk,        \* content of nodes/AIMediaGen.ts (flat token sequence)
    linesep,     \* os.linesep of the platform the script runs on
    lines,       \* list returned by f.readlines()
    i,           \* loop variable i (scan loop, then generation loop)
    start_idx,   \* start_idx (None or a 0-based index)
    end_idx,     \* end_idx (None or a 0-based index)
    new_fields,  \* list new_fields
    new_content, \* list new_content
    stdout,      \* what the process has printed
    exitcode,    \* None while running, then the exit status
    pc,          \* position of the process in the script
    run,         \* number of the current invocation of the script
    disk0,       \* history: file content when the current invocation started
    wopens,      \* history: number of open(..., 'w') calls of this invocation
    prev         \* history: outcome of the previous invocation

vars == <<disk, linesep, lines, i, start_idx, end_idx, new_fields, new_content,
          stdout, exitcode, pc, run, disk0, wopens, prev>>

---------------------------------------------------------------------------
(* Bounds of the model *)

\* largest number of lines of the input file
MaxLines == 3

\* number of invocations of the script in one behaviour
MaxRuns == 2

---------------------------------------------------------------------------
(* Constants of the script *)

\* Python's None, for start_idx, end_idx and the exit status of a live process
None == -1

\* mutant of NumFields: range(1, 14)
NumFields_short == 14 - 1

\* range(1, 15) generates the fields 1..14
NumFields == 14

LF == "\n"
CRLF == "\r\n"
CR == "\r"

\* '// Nano Banana - Input Images'
StartMarker == <<"// ", "Nano Banana - Input Images">>

\* 'Nano Banana - Aspect Ratio' (the text a start line must not contain)
ExcludeText == <<"Nano Banana - Aspect Ratio">>

\* '// Nano Banana - Aspect Ratio'
EndMarker == <<"// ", "Nano Banana - Aspect Ratio">>

\* Python's `sub in line` on strings
Contains(sub, line) ==
    \E k \in 1..(Len(line) - Len(sub) + 1) :
        SubSeq(line, k, k + Len(sub) - 1) = sub

ordinal_map ==
    <<"First", "Second", "Third", "Fourth",
      "Fifth", "Sixth", "Seventh", "Eighth",
      "Ninth", "Tenth", "Eleventh", "Twelfth",
      "Thirteenth", "Fourteenth">>

\* mutant of header_line: a header that does not repeat the marker text
header_line_nomarker ==
    <<"\t\t", "// ", "Nano Banana - 14 separate input image fields", LF>>

\* the header element appended to new_fields
header_line ==
    <<"\t\t", "// ", "Nano Banana - Input Images", " (14 separate fields)", LF>>

\* mutant of field_template: the description suffix starts one field late
field_template_suffix(n) ==
    <<"\t\t{", LF,
      "\t\t\tdisplayName: 'Input Image ", ToString(n), "',", LF,
      "\t\t\tname: 'nbInputImage", ToString(n), "',", LF,
      "\t\t\ttype: 'string',", LF,
      "\t\t\tdefault: '',", LF,
      "\t\t\tdisplayOptions: {", LF,
      "\t\t\t\tshow: {", LF,
      "\t\t\t\t\toperation: ['nanoBanana'],", LF,
      "\t\t\t\t},", LF,
      "\t\t\t},", LF,
      "\t\t\tplaceholder: 'Image URL, base64 data, or binary property name",
          (IF n = 1 THEN " (e.g., data)" ELSE ""), "',", LF,
      "\t\t\tdescription: '", ordinal_map[n], " input image",
          (IF n > 5 THEN " (Gemini 3 Pro)" ELSE ""), "',", LF,
      "\t\t},", LF>>

\* mutant of field_template: the line of the default value is missing
field_template_short(n) ==
    <<"\t\t{", LF,
      "\t\t\tdisplayName: 'Input Image ", ToString(n), "',", LF,
      "\t\t\tname: 'nbInputImage", ToString(n), "',", LF,
      "\t\t\ttype: 'string',", LF,
      "\t\t\tdisplayOptions: {", LF,
      "\t\t\t\tshow: {", LF,
      "\t\t\t\t\toperation: ['nanoBanana'],", LF,
      "\t\t\t\t},", LF,
      "\t\t\t},", LF,
      "\t\t\tplaceholder: 'Image URL, base64 data, or binary property name",
          (IF n = 1 THEN " (e.g., data)" ELSE ""), "',", LF,
      "\t\t\tdescription: '", ordinal_map[n], " input image",
          (IF n >= 5 THEN " (Gemini 3 Pro)" ELSE ""), "',", LF,
      "\t\t},", LF>>

\* the f-string field_template for index n: one string of 13 lines
field_template(n) ==
    <<"\t\t{", LF,
      "\t\t\tdisplayName: 'Input Image ", ToString(n), "',", LF,
      "\t\t\tname: 'nbInputImage", ToString(n), "',", LF,
      "\t\t\ttype: 'string',", LF,
      "\t\t\tdefault: '',", LF,
      "\t\t\tdisplayOptions: {", LF,
      "\t\t\t\tshow: {", LF,
      "\t\t\t\t\toperation: ['nanoBanana'],", LF,
      "\t\t\t\t},", LF,
      "\t\t\t},", LF,
      "\t\t\tplaceholder: 'Image URL, base64 data, or binary property name",
          (IF n = 1 THEN " (e.g., data)" ELSE ""), "',", LF,
      "\t\t\tdescription: '", ordinal_map[n], " input image",
          (IF n >= 5 THEN " (Gemini 3 Pro)" ELSE ""), "',", LF,
      "\t\t},", LF>>

---------------------------------------------------------------------------
(* Text-mode file input and output *)

IsEol(t) == t \in {LF, CRLF, CR}

\* two runs of complete lines and unterminated rest, one after the other: the
\* rest of the first continues into the second
joinlines(l, r) ==
    IF r.done = <<>>
    THEN [done |-> l.done, rest |-> l.rest \o r.rest]
    ELSE [done |-> l.done \o << l.rest \o Head(r.done) >> \o Tail(r.done),
          rest |-> r.rest]

\* The lines of the tokens lo..hi of content: the complete lines (terminator
\* translated to "\n") and the unterminated rest.  The range is halved to
\* keep the recursion shallow, and the halves are bound by a set constructor
\* so that each is computed once.
RECURSIVE splitlines(_, _, _)
splitlines(content, lo, hi) ==
    IF lo > hi THEN [done |-> <<>>, rest |-> <<>>]
    ELSE IF lo = hi
    THEN IF IsEol(content[lo])
         THEN [done |-> << <<LF>> >>, rest |-> <<>>]
         ELSE [done |-> <<>>, rest |-> <<content[lo]>>]
    ELSE LET mid == (lo + hi) \div 2
         IN CHOOSE both \in { joinlines(l, r) : l \in { splitlines(content, lo, mid) },
                                                r \in { splitlines(content, mid + 1, hi) } } :
                TRUE

\* f.readlines() in text mode with universal newlines: split after every
\* terminator, each terminator translated to "\n"; a last line without
\* terminator is returned as it is
readlines(content) ==
    CHOOSE list \in { IF s.rest = <<>> THEN s.done ELSE Append(s.done, s.rest) :
                         s \in { splitlines(content, 1, Len(content)) } } : TRUE

\* the concatenation of the strings lo..hi of a list (the range is halved to
\* keep the recursion shallow)
RECURSIVE concatrange(_, _, _)
concatrange(list, lo, hi) ==
    IF lo > hi THEN <<>>
    ELSE IF lo = hi THEN list[lo]
    ELSE concatrange(list, lo, (lo + hi) \div 2)
             \o concatrange(list, (lo + hi) \div 2 + 1, hi)

\* the concatenation of the strings of a list
concat(list) == concatrange(list, 1, Len(list))

\* what text mode writes for a string: every "\n" translated to os.linesep
translate(str, sep) ==
    [k \in 1..Len(str) |-> IF str[k] = LF THEN sep ELSE str[k]]

\* f.writelines(list) in text mode: the strings are written one after the
\* other
writelines(list, sep) ==
    CHOOSE text \in { concat(written) :
                         written \in { [j \in 1..Len(list) |-> translate(list[j], sep)] } } :
        TRUE

---------------------------------------------------------------------------
(* Input files *)

\* texts of the lines an input file is made of (without terminator)
LineTexts ==
    { <<"\t\t", "type: 'options',">>,
      <<"\t\t", "// ", "Nano Banana - Input Images">>,
      <<"\t\t", "// ", "Nano Banana - Aspect Ratio">>,
      <<"// ", "Nano Banana - Input Images", " and ", "Nano Banana - Aspect Ratio">>,
      <<"// ", "Nano Banana - Input Images", " ", "// ", "Nano Banana - Aspect Ratio">> }

RECURSIVE SeqsUpTo(_, _)
SeqsUpTo(S, n) ==
    IF n = 0 THEN { <<>> }
    ELSE LET shorter == SeqsUpTo(S, n - 1)
         IN shorter \cup { Append(s, x) : s \in { t \in shorter : Len(t) = n - 1 }, x \in S }

\* the file made of the given line texts, the lines ended by eol; the last
\* line has a terminator iff terminated
FileOf(texts, eol, terminated) ==
    concat([k \in 1..Len(texts) |->
               IF k < Len(texts) \/ terminated THEN Append(texts[k], eol)
               ELSE texts[k]])

---------------------------------------------------------------------------
(* The script *)

NoPrev == [exitcode |-> None, start_idx |-> None, end_idx |-> None]

Init ==
    /\ \E texts \in SeqsUpTo(LineTexts, MaxLines), eol \in {LF, CRLF},
          terminated \in BOOLEAN :
           disk = FileOf(texts, eol, terminated)
    /\ linesep \in {LF, CRLF}
    /\ lines = <<>>
    /\ i = None
    /\ start_idx = None
    /\ end_idx = None
    /\ new_fields = <<>>
    /\ new_content = <<>>
    /\ stdout = <<>>
    /\ exitcode = None
    /\ pc = "read"
    /\ run = 1
    /\ disk0 = disk
    /\ wopens = 0
    /\ prev = NoPrev

\* mutant of missing: `and` in the place of `or`
missing_and == start_idx = None /\ end_idx = None

\* line 19: start_idx is None or end_idx is None
missing == start_idx = None \/ end_idx = None

\* lines 5-10: read the file, start_idx = None, end_idx = None
ReadFile ==
    /\ pc = "read"
    /\ lines' = readlines(disk)
    /\ start_idx' = None
    /\ end_idx' = None
    /\ i' = 0
    /\ pc' = "scan"
    /\ UNCHANGED <<disk, linesep, new_fields, new_content, stdout, exitcode,
                   run, disk0, wopens, prev>>

\* mutant of ScanStep: the end marker is accepted before any start marker
ScanStep_noguard ==
    /\ pc = "scan"
    /\ i < Len(lines)
    /\ LET line == lines[i + 1]
           s == IF Contains(StartMarker, line) /\ ~Contains(ExcludeText, line)
                THEN i ELSE start_idx
       IN /\ start_idx' = s
          /\ IF Contains(EndMarker, line)
             THEN /\ end_idx' = i
                  /\ i' = i
                  /\ pc' = "check"
             ELSE /\ end_idx' = end_idx
                  /\ i' = i + 1
                  /\ pc' = "scan"
    /\ UNCHANGED <<disk, linesep, lines, new_fields, new_content, stdout,
                   exitcode, run, disk0, wopens, prev>>

\* lines 12-17: one iteration of the scan loop, on line i (0-based).  In the
\* pc "scan" i is the index enumerate() yields next; the script does not
\* read i between the two loops.
ScanStep ==
    /\ pc = "scan"
    /\ i < Len(lines)
    /\ LET line == lines[i + 1]
           s == IF Contains(StartMarker, line) /\ ~Contains(ExcludeText, line)
                THEN i ELSE start_idx
       IN /\ start_idx' = s
          /\ IF s # None /\ Contains(EndMarker, line)
             THEN /\ end_idx' = i
                  /\ i' = i
                  /\ pc' = "check"
             ELSE /\ end_idx' = end_idx
                  /\ i' = i + 1
                  /\ pc' = "scan"
    /\ UNCHANGED <<disk, linesep, lines, new_fields, new_content, stdout,
                   exitcode, run, disk0, wopens, prev>>

\* line 12: the scan loop runs out of lines
ScanExit ==
    /\ pc = "scan"
    /\ i >= Len(lines)
    /\ pc' = "check"
    /\ UNCHANGED <<disk, linesep, lines, i, start_idx, end_idx, new_fields,
                   new_content, stdout, exitcode, run, disk0, wopens, prev>>

\* mutant of Abort: exit() without a status
Abort_exit0 ==
    /\ pc = "check"
    /\ missing
    /\ stdout' = Append(stdout, <<"Error: Could not find section.", start_idx, end_idx>>)
    /\ exitcode' = 0
    /\ pc' = "exited"
    /\ UNCHANGED <<disk, linesep, lines, i, start_idx, end_idx, new_fields,
                   new_content, run, disk0, wopens, prev>>

\* lines 19-21: a marker is missing: print the diagnostic, exit(1)
Abort ==
    /\ pc = "check"
    /\ missing
    /\ stdout' = Append(stdout, <<"Error: Could not find section.", start_idx, end_idx>>)
    /\ exitcode' = 1
    /\ pc' = "exited"
    /\ UNCHANGED <<disk, linesep, lines, i, start_idx, end_idx, new_fields,
                   new_content, run, disk0, wopens, prev>>

\* lines 19, 23-27: both markers found: report, start new_fields with the header
Found ==
    /\ pc = "check"
    /\ ~missing
    /\ stdout' = Append(stdout, <<"Found section", start_idx + 1, end_idx>>)
    /\ new_fields' = <<header_line>>
    /\ i' = 1
    /\ pc' = "gen"
    /\ UNCHANGED <<disk, linesep, lines, start_idx, end_idx, new_content,
                   exitcode, run, disk0, wopens, prev>>

\* lines 36-51: one iteration of the generation loop
GenField ==
    /\ pc = "gen"
    /\ i <= NumFields
    /\ new_fields' = Append(new_fields, field_template(i))
    /\ i' = i + 1
    /\ UNCHANGED <<disk, linesep, lines, start_idx, end_idx, new_content,
                   stdout, exitcode, pc, run, disk0, wopens, prev>>

\* mutant of Upto: the slice keeps the line at the index
Upto_incl(list, a) == SubSeq(list, 1, a + 1)

\* list[:a] of Python for 0 <= a
Upto(list, a) == SubSeq(list, 1, a)

\* mutant of From: the slice starts after the line at the index
From_excl(list, a) == SubSeq(list, a + 2, Len(list))

\* list[a:] of Python for 0 <= a
From(list, a) == SubSeq(list, a + 1, Len(list))

\* line 54: new_content = lines[:start_idx] + new_fields + lines[end_idx:]
Splice ==
    /\ pc = "gen"
    /\ i > NumFields
    /\ new_content' = Upto(lines, start_idx) \o new_fields \o From(lines, end_idx)
    /\ pc' = "open"
    /\ UNCHANGED <<disk, linesep, lines, i, start_idx, end_idx, new_fields,
                   stdout, exitcode, run, disk0, wopens, prev>>

\* line 57: open(..., 'w') truncates the file
OpenWrite ==
    /\ pc = "open"
    /\ disk' = <<>>
    /\ wopens' = wopens + 1
    /\ pc' = "write"
    /\ UNCHANGED <<linesep, lines, i, start_idx, end_idx, new_fields,
                   new_content, stdout, exitcode, run, disk0, prev>>

\* line 58: f.writelines(new_content), and the file is closed
WriteLines ==
    /\ pc = "write"
    /\ disk' = writelines(new_content, linesep)
    /\ pc' = "report"
    /\ UNCHANGED <<linesep, lines, i, start_idx, end_idx, new_fields,
                   new_content, stdout, exitcode, run, disk0, wopens, prev>>

\* line 60: print the confirmation; the script ends, exit status 0
Report ==
    /\ pc = "report"
    /\ stdout' = Append(stdout, <<"Successfully replaced", None, None>>)
    /\ exitcode' = 0
    /\ pc' = "exited"
    /\ UNCHANGED <<disk, linesep, lines, i, start_idx, end_idx, new_fields,
                   new_content, run, disk0, wopens, prev>>

\* the script is invoked again, on the file the last invocation left
Rerun ==
    /\ pc = "exited"
    /\ run < MaxRuns
    /\ run' = run + 1
    /\ prev' = [exitcode |-> exitcode, start_idx |-> start_idx, end_idx |-> end_idx]
    /\ disk0' = disk
    /\ wopens' = 0
    /\ lines' = <<>>
    /\ i' = None
    /\ start_idx' = None
    /\ end_idx' = None
    /\ new_fields' = <<>>
    /\ new_content' = <<>>
    /\ stdout' = <<>>
    /\ exitcode' = None
    /\ pc' = "read"
    /\ UNCHANGED <<disk, linesep>>

Next ==
    \/ ReadFile
    \/ ScanStep
    \/ ScanExit
    \/ Abort
    \/ Found
    \/ GenField
    \/ Splice
    \/ OpenWrite
    \/ WriteLines
    \/ Report
    \/ Rerun

Spec == Init /\ [][Next]_vars

---------------------------------------------------------------------------
(* Vocabulary of the properties *)

\* the scan loop is over
ScanOver == pc \notin {"read", "scan"}

\* the invocation has ended normally
Succeeded == pc = "exited" /\ exitcode = 0

\* the invocation follows one that ended normally
AfterSuccess == run > 1 /\ prev.exitcode = 0

\* a message of the given kind has been printed
Printed(kind) == \E k \in 1..Len(stdout) : stdout[k][1] = kind

\* file content with every line terminator written as "\n"
Normalised(content) ==
    [k \in 1..Len(content) |-> IF IsEol(content[k]) THEN LF ELSE content[k]]

\* new_content has been built by a splice
Spliced == pc \in {"open", "write", "report"} \/ Succeeded

---------------------------------------------------------------------------
(* C1 *)

\* C1: when the scan ends with start_idx or end_idx unset, the run can only
\* abort: it ends with exit status 1, the file is never opened for writing
\* and its content is the content the run started with.
C1_AbortLeavesFile ==
    (ScanOver /\ (start_idx = None \/ end_idx = None)) =>
        /\ pc \in {"check", "exited"}
        /\ pc = "check" => (ENABLED Abort /\ ~ENABLED Found)
        /\ pc = "exited" => (exitcode = 1 /\ Printed("Error: Could not find section."))
        /\ wopens = 0
        /\ disk = disk0

\* an aborted first run on a file whose only end-marker line precedes the
\* start-marker line
C1_Witness ==
    /\ run = 1
    /\ pc = "exited"
    /\ exitcode = 1
    /\ start_idx = 1
    /\ end_idx = None
    /\ Contains(EndMarker, lines[1])
    /\ disk # <<>>

---------------------------------------------------------------------------
(* C2 *)

\* C2: with both markers located at s and e, the sequence written is the
\* input lines 0..s-1, then the header and the 14 field blocks, then the
\* input lines e..end; the end-marker line opens the trailing segment.
C2_SpliceFrame ==
    Spliced =>
        LET s == start_idx
            e == end_idx
            n == Len(lines)
        IN /\ Len(new_content) = s + 15 + (n - e)
           /\ \A k \in 1..s : new_content[k] = lines[k]
           /\ new_content[s + 1] = header_line
           /\ \A k \in 1..14 : new_content[s + 1 + k] = field_template(k)
           /\ \A k \in 1..(n - e) : new_content[s + 15 + k] = lines[e + k]
           /\ Contains(EndMarker, new_content[s + 16])
           /\ (pc = "report" \/ Succeeded) => Normalised(disk) = concat(new_content)

\* a successful first run with a line before the section, a line inside it
\* and the end marker
C2_Witness ==
    /\ run = 1
    /\ Succeeded
    /\ start_idx = 1
    /\ end_idx = 2
    /\ Len(lines) = 3

---------------------------------------------------------------------------
(* C3 *)

\* C3 as stated: a run on the output of a successful run ends with the
\* marker-not-found diagnostic and status 1, the file unchanged.
C3_RerunAborts ==
    (AfterSuccess /\ pc = "exited") =>
        /\ exitcode = 1
        /\ Printed("Error: Could not find section.")
        /\ disk = disk0

\* C3 amended: a run on the output of a successful run finds the start
\* marker in the generated header line, at the index the earlier run
\* replaced from, and the end marker right after the 14 blocks of 13 lines;
\* it prints no marker-not-found diagnostic and ends with status 0, the file
\* content as the earlier run left it.
C3_RerunFindsHeader ==
    (AfterSuccess /\ ScanOver) =>
        /\ start_idx = prev.start_idx
        /\ lines[start_idx + 1] = header_line
        /\ end_idx = start_idx + 1 + 14 * 13
        /\ ~Printed("Error: Could not find section.")
        /\ pc = "exited" => (exitcode = 0 /\ disk = disk0)

\* the second run has ended after a successful first run
C3_Witness ==
    /\ run = 2
    /\ prev.exitcode = 0
    /\ pc = "exited"
    /\ prev.start_idx = 1

---------------------------------------------------------------------------
(* C4 *)

\* C4: the start index recorded is the first line that contains the start
\* marker and not the text 'Nano Banana - Aspect Ratio' of the end marker,
\* and the end index is the first line after it that contains the end
\* marker.
C4_FirstStartLine ==
    (ScanOver /\ start_idx # None) =>
        /\ \A k \in 0..(start_idx - 1) :
               ~(Contains(StartMarker, lines[k + 1]) /\ ~Contains(ExcludeText, lines[k + 1]))
        /\ end_idx # None =>
               \A k \in (start_idx + 1)..(end_idx - 1) : ~Contains(EndMarker, lines[k + 1])

---------------------------------------------------------------------------
(* C5 *)

\* C5 as stated: after a successful run on N lines with the markers at the
\* 1-based lines S and E, the file has N - (E - S) + 1 + 14 lines.
C5_OneLinePerBlock ==
    Succeeded =>
        LET S == start_idx + 1
            E == end_idx + 1
            N == Len(lines)
        IN Len(readlines(disk)) = N - (E - S) + 1 + 14

\* C5 amended: each generated block is one element of the list written but
\* 13 lines of the file.  The list has N - (E - S) + 1 + 14 elements; read
\* in text mode, the file after a successful run has (S - 1) + 1 + 14 * 13
\* + (N - E + 1) lines: lines 1..S-1 are the input lines 1..S-1, line S is the
\* header, block k is the 13 lines from S + 1 + 13 * (k - 1) on, and the
\* lines from S + 183 on are the input lines from E on.
C5_ThirteenLinesPerBlock ==
    Succeeded =>
        LET S == start_idx + 1
            E == end_idx + 1
            N == Len(lines)
            out == readlines(disk)
        IN /\ Len(new_content) = N - (E - S) + 1 + 14
           /\ Len(out) = (S - 1) + 1 + 14 * 13 + (N - E + 1)
           /\ \A k \in 1..(S - 1) : out[k] = lines[k]
           /\ out[S] = header_line
           /\ \A k \in 1..14 :
                  /\ concat(SubSeq(out, S + 1 + 13 * (k - 1), S + 13 * k)) = new_fields[k + 1]
                  /\ out[S + 3 + 13 * (k - 1)] =
                         <<"\t\t\tname: 'nbInputImage", ToString(k), "',", LF>>
           /\ \A k \in 0..(N - E) : out[S + 183 + k] = lines[E + k]

\* a successful first run on three lines, the start marker on line 1 and
\* the end marker on line 3
C5_Witness ==
    /\ run = 1
    /\ Succeeded
    /\ Len(lines) = 3
    /\ start_idx = 0
    /\ end_idx = 2
    /\ Len(readlines(disk)) = 184

---------------------------------------------------------------------------
(* C6 *)

\* C6: new_fields is the header line followed by the field blocks in the
\* order 1, 2, ...: block k carries the name nbInputImage<k> and the display
\* name 'Input Image <k>', each once; when the generation loop is over there
\* are exactly 14 blocks, whatever the input.
C6_FourteenBlocksInOrder ==
    LET nameAt(b) == { k \in 1..Len(b) : b[k] = "\t\t\tname: 'nbInputImage" }
        dispAt(b) == { k \in 1..Len(b) : b[k] = "\t\t\tdisplayName: 'Input Image " }
    IN (pc = "gen" \/ Spliced) =>
        /\ pc = "gen" => Len(new_fields) = i
        /\ (pc = "gen" /\ ENABLED Splice) \/ Spliced => Len(new_fields) = 15
        /\ Len(new_fields) <= 15
        /\ new_fields[1] = <<"\t\t", "// ", "Nano Banana - Input Images",
                             " (14 separate fields)", LF>>
        /\ \A k \in 1..(Len(new_fields) - 1) :
               LET b == new_fields[k + 1]
               IN /\ Cardinality(nameAt(b)) = 1
                  /\ Cardinality(dispAt(b)) = 1
                  /\ \A a \in nameAt(b) : b[a + 1] = ToString(k) /\ b[a + 2] = "',"
                  /\ \A a \in dispAt(b) : b[a + 1] = ToString(k) /\ b[a + 2] = "',"

\* the generation loop of a first run is over
C6_Witness ==
    /\ run = 1
    /\ pc = "gen"
    /\ i = 15
    /\ Len(new_fields) = 15
    /\ Len(lines) = 3

---------------------------------------------------------------------------
(* C7 *)

\* C7: block k has the placeholder suffix ' (e.g., data)' iff k = 1, has the
\* description suffix ' (Gemini 3 Pro)' iff k >= 5, and its description
\* starts with the ordinal word of k.
C7_SuffixesAndOrdinals ==
    LET word == <<"First", "Second", "Third", "Fourth", "Fifth", "Sixth",
                  "Seventh", "Eighth", "Ninth", "Tenth", "Eleventh", "Twelfth",
                  "Thirteenth", "Fourteenth">>
    IN \A k \in 1..(Len(new_fields) - 1) :
           LET b == new_fields[k + 1]
           IN /\ Contains(<<" (e.g., data)">>, b) <=> k = 1
              /\ Contains(<<" (Gemini 3 Pro)">>, b) <=> k >= 5
              /\ Contains(<<"\t\t\tdescription: '", word[k], " input image">>, b)
              /\ k = 1 =>
                     Contains(<<"\t\t\tplaceholder: 'Image URL, base64 data, or binary property name",
                                " (e.g., data)", "',", LF>>, b)
              /\ k >= 5 =>
                     Contains(<<word[k], " input image", " (Gemini 3 Pro)", "',", LF>>, b)

\* all 14 blocks have been generated
C7_Witness ==
    /\ pc = "open"
    /\ Len(new_fields) = 15
    /\ Contains(<<" (Gemini 3 Pro)">>, new_fields[6])
    /\ ~Contains(<<" (Gemini 3 Pro)">>, new_fields[5])

---------------------------------------------------------------------------
(* C8 *)

\* C8: during the scan and after it, end_idx set implies start_idx set and
\* start_idx < end_idx; the line at start_idx contains the start marker and
\* not 'Nano Banana - Aspect Ratio'; the line at end_idx contains the end
\* marker; an end-marker line before every start-marker line is never
\* recorded.
C8_ScanInvariant ==
    /\ end_idx # None => (start_idx # None /\ start_idx < end_idx)
    /\ start_idx # None =>
           /\ start_idx \in 0..(Len(lines) - 1)
           /\ Contains(StartMarker, lines[start_idx + 1])
           /\ ~Contains(ExcludeText, lines[start_idx + 1])
    /\ end_idx # None =>
           /\ end_idx \in 0..(Len(lines) - 1)
           /\ Contains(EndMarker, lines[end_idx + 1])
           /\ \E k \in 0..(end_idx - 1) : Contains(StartMarker, lines[k + 1])

\* the scan has passed an end-marker line that precedes the start marker
\* and recorded the later one
C8_Witness ==
    /\ run = 1
    /\ pc = "check"
    /\ Len(lines) = 3
    /\ Contains(EndMarker, lines[1])
    /\ start_idx = 1
    /\ end_idx = 2

---------------------------------------------------------------------------
(* C9 *)

\* the order of the steps of a run
StepOrder ==
    { <<"read", "scan">>, <<"scan", "scan">>, <<"scan", "check">>,
      <<"check", "exited">>, <<"check", "gen">>, <<"gen", "gen">>,
      <<"gen", "open">>, <<"open", "write">>, <<"write", "report">>,
      <<"report", "exited">>, <<"exited", "read">> }

\* what has happened at each point of a run
C9_Outcomes ==
    /\ wopens \in {0, 1}
    /\ wopens = 1 <=> (pc \in {"write", "report"} \/ Succeeded)
    /\ wopens = 1 => (start_idx # None /\ end_idx # None)
    /\ Printed("Found section") => (start_idx # None /\ end_idx # None)
    /\ Printed("Successfully replaced") =>
           (Succeeded /\ disk = writelines(new_content, linesep))
    /\ Printed("Error: Could not find section.") =>
           /\ ~Printed("Found section")
           /\ ~Printed("Successfully replaced")
           /\ wopens = 0
           /\ disk = disk0
           /\ pc = "exited"
           /\ exitcode = 1
    /\ pc = "exited" =>
           \/ exitcode = 1 /\ wopens = 0 /\ Printed("Error: Could not find section.")
           \/ exitcode = 0 /\ wopens = 1 /\ Printed("Successfully replaced")
    /\ pc # "exited" =>
           /\ exitcode = None
           /\ ENABLED (ReadFile \/ ScanStep \/ ScanExit \/ Abort \/ Found \/ GenField
                         \/ Splice \/ OpenWrite \/ WriteLines \/ Report)

\* C9: the steps of a run come in the order read, scan, then abort or
\* generate, splice, write; the file is opened for writing only with both
\* markers located; the confirmation is printed only after the write; a run
\* that prints the diagnostic prints nothing else and writes nothing; a run
\* that has not ended can take a step, and one that has ended has exactly
\* one of the two outcomes.
C9_RunOrder ==
    /\ []C9_Outcomes
    /\ [][(pc' # pc \/ pc \in {"scan", "gen"}) /\ << pc, pc' >> \in StepOrder]_vars

\* a run that ended normally after its write
C9_Witness ==
    /\ run = 1
    /\ Succeeded
    /\ wopens = 1
    /\ Len(stdout) = 2
    /\ disk # disk0

---------------------------------------------------------------------------
(* C10 *)

\* C10: a run on the output of a successful run locates both markers,
\* writes back exactly the text it read and ends with status 0, the file
\* identical to what the earlier run produced.
C10_Idempotent ==
    AfterSuccess =>
        /\ ScanOver => ~missing
        /\ Spliced => concat(new_content) = concat(lines)
        /\ pc = "exited" => (exitcode = 0 /\ wopens = 1 /\ disk = disk0)

\* the second run has written the file again
C10_Witness ==
    /\ run = 2
    /\ prev.exitcode = 0
    /\ Succeeded
    /\ wopens = 1
    /\ Len(lines) > 183

====
